---- MODULE Spec2Model ----
(***************************************************************************)
(* A model of easyeditor/models/roselora/roselora_main.py: the edit run    *)
(* execute_roselora (setup, request preprocessing, the training loop with  *)
(* its sparsity schedule, importance tracking, pruning and early stop),    *)
(* the AverageMeter and the chunks generator.                              *)
(*                                                                         *)
(* Numbers.  Python floats are modelled by exact rationals:                *)
(*   - a sparsity rate is an integer numerator over RateDen;               *)
(*   - a loss is an integer number of tenths, the meter's avg a reduced    *)
(*     fraction [num, den] of tenths;                                      *)
(*   - an adapter entry is an integer number of 1e-3;                      *)
(*   - an importance tensor is [num, exp]: entry i is num[i] / 5^exp, kept *)
(*     in lowest common terms.                                             *)
(* Strings are sequences of characters.                                    *)
(***************************************************************************)
EXTENDS Integers, Sequences, FiniteSets, TLC

\* ------------------------------------------------------------------ bounds
MaxRequests == 2
MaxBatch == 2
MaxSteps == 23
MaxUpdates == 6
Rows == 7
MaxArr == 7
MaxN == 3
MaxCalls == 3

\* ------------------------------------------------------- program constants
SparsityNum == 1
SparsityDen == 20
full_iter == 3
burnin_iter == 20
DecayNum == 4
DecayDen == 5
ScoreNum == 1
ClampMax == 3
StopLoss == 1

\* A name that is not bound yet (a local before its first assignment, a key
\* missing from a dict, a gradient before the first backward pass) is <<>>;
\* a bound one is the one-element sequence of its value.
Unbound == <<>>

Bound(x) == <<x>>

ValueOf(v) == v[1]

\* ----------------------------------------------------------------- helpers
Abs(x) == IF x < 0 THEN 0 - x ELSE x

Min(a, b) == IF a < b THEN a ELSE b

RECURSIVE Pow(_, _)
Pow(b, e) == IF e = 0 THEN 1 ELSE b * Pow(b, e - 1)

RECURSIVE Gcd(_, _)
Gcd(a, b) == IF b = 0 THEN a ELSE Gcd(b, a % b)

Idx == 1 .. Rows

\* ------------------------------------------------------- sparsity schedule
\* rate = sparsity + (1 - sparsity) * (1 - (it - full_iter) / (burnin_iter - full_iter)) ** 3
\* as a numerator over RateDen; 1 - (it - f) / (b - f) = (b - it) / (b - f).
RateDen == SparsityDen * Pow(burnin_iter - full_iter, 3)

RateOne == RateDen

RateFloor == SparsityNum * Pow(burnin_iter - full_iter, 3)

\* the schedule without its annealing branch
SparsityRateFlatAnneal(i) == IF i < burnin_iter THEN RateOne ELSE RateFloor

SparsityRate(i) ==
  IF i < full_iter THEN RateOne
  ELSE IF full_iter <= i /\ i < burnin_iter
       THEN RateFloor + (SparsityDen - SparsityNum) * Pow(burnin_iter - i, 3)
       ELSE RateFloor

\* int(shape * (1 - rate))
KthIndex(shape, rate) == (shape * (RateDen - rate)) \div RateDen

\* ------------------------------------------------------------------ chunks
\* The generator's for-loop from element i on, with the chunk being filled
\* and the chunks yielded so far.
RECURSIVE ChunksFrom(_, _, _, _, _)
ChunksFrom(arr, n, i, chunk, out) ==
  IF i > Len(arr)
  THEN IF Len(chunk) > 0 THEN Append(out, chunk) ELSE out
  ELSE LET c == Append(chunk, arr[i])
       IN IF Len(c) = n
          THEN ChunksFrom(arr, n, i + 1, <<>>, Append(out, c))
          ELSE ChunksFrom(arr, n, i + 1, c, out)

\* chunks without the trailing `if len(chunk) > 0: yield chunk`
chunksNoTail(arr, n) == SelectSeq(ChunksFrom(arr, n, 1, <<>>, <<>>), LAMBDA c : Len(c) = n)

chunks(arr, n) == ChunksFrom(arr, n, 1, <<>>, <<>>)

\* zip(chunks(texts, n), chunks(targets, n)): stops with the shorter one.
Batches(txts, tgts, n) ==
  LET a == chunks(txts, n)
      b == chunks(tgts, n)
  IN [j \in 1 .. Min(Len(a), Len(b)) |-> [txt |-> a[j], tgt |-> b[j]]]

\* ------------------------------------------------------------ AverageMeter
Frac(s, c) == LET g == Gcd(s, c) IN [num |-> s \div g, den |-> c \div g]

MeterReset == [val |-> 0, avg |-> [num |-> 0, den |-> 1], sum |-> 0, count |-> 0]

\* update with `self.sum += val`
MeterUpdateUnweighted(m, val, n) ==
  LET s == m.sum + val
      c == m.count + n
  IN [val |-> val, avg |-> Frac(s, c), sum |-> s, count |-> c]

MeterUpdate(m, val, n) ==
  LET s == m.sum + val * n
      c == m.count + n
  IN [val |-> val, avg |-> Frac(s, c), sum |-> s, count |-> c]

\* loss_meter.avg < 0.1
BelowStopLoss(m) == m.avg.num < StopLoss * m.avg.den

\* ---------------------------------------------------- request preprocessing
Space == <<" ">>

\* the rule with a whitespace test in place of the comparison with " "
LeadingSpaceSkipBlank(t) ==
  IF \E j \in 1 .. Len(t) : t[j] # " " THEN Space \o t ELSE t

LeadingSpace(t) == IF t # Space THEN Space \o t ELSE t

Rewrite(reqs) ==
  [j \in 1 .. Len(reqs) |->
     [reqs[j] EXCEPT !.target_new = LeadingSpace(reqs[j].target_new)]]

\* requests = deepcopy(requests), then the loop over the copy: what the caller
\* holds and what the local name holds afterwards.
\* the loop run on the caller's list itself (no deepcopy)
PreprocessedInPlace(caller) == [caller |-> Rewrite(caller), local |-> Rewrite(caller)]

Preprocessed(caller) == [caller |-> caller, local |-> Rewrite(caller)]

\* -------------------------------------------------------------- importance
\* torch.abs(p.grad * p)
ImpScore(g, p) == [i \in Idx |-> Abs(g[i] * p[i])]

RECURSIVE ImpNormal(_)
ImpNormal(x) ==
  IF x.exp > 0 /\ \A i \in Idx : x.num[i] % DecayDen = 0
  THEN ImpNormal([num |-> [i \in Idx |-> x.num[i] \div DecayDen], exp |-> x.exp - 1])
  ELSE x

\* the first-observation branch taken on every micro-batch
ImpUpdateRestart(imp, score) == Bound([num |-> score, exp |-> 0])

\* imp is the dict entry imp_A[n] / imp_B[n] (Unbound: n not in the dict).
\* imp = score on the first observation, imp * 0.8 + score * 0.2 afterwards
ImpUpdate(imp, score) ==
  IF imp = Unbound
  THEN Bound([num |-> score, exp |-> 0])
  ELSE Bound(ImpNormal([num |-> [i \in Idx |->
                                   DecayNum * ValueOf(imp).num[i]
                                   + ScoreNum * score[i] * Pow(DecayDen, ValueOf(imp).exp)],
                        exp |-> ValueOf(imp).exp + 1]))

\* ----------------------------------------------------------------- pruning
\* torch.kthvalue(v, k): the k-th smallest entry, defined for 1 <= k <= size
\* (a RuntimeError otherwise; with 7 entries or more k >= 1 whenever rate < 1.0)
KthInRange(k) == 1 <= k /\ k <= Rows

KthValue(v, k) ==
  CHOOSE x \in {v[i] : i \in Idx} :
    /\ Cardinality({i \in Idx : v[i] < x}) < k
    /\ k <= Cardinality({i \in Idx : v[i] <= x})

Clamp(x) == IF x < 0 - ClampMax THEN 0 - ClampMax
            ELSE IF x > ClampMax THEN ClampMax ELSE x

\* clamp_ without the masked_fill_
PruneTensorNoMask(p, imp, k) == [i \in Idx |-> Clamp(p[i])]

\* p.data.masked_fill_(imp < mask_threshold, 0.0); p.data.clamp_(-3e-3, 3e-3)
PruneTensor(p, imp, k) ==
  LET mask_threshold == KthValue(imp.num, k)
  IN [i \in Idx |-> Clamp(IF imp.num[i] < mask_threshold THEN 0 ELSE p[i])]

\* ------------------------------------------------------------------ inputs
Targets == {<<>>, <<" ">>, <<" ", " ">>, <<"a">>}

Requests == [prompt : {<<"q">>}, target_new : Targets]

RequestLists == UNION {[1 .. n -> Requests] : n \in 0 .. MaxRequests}

NumSteps == {0, 1, full_iter + 3, MaxSteps}

HyperParams ==
  [lora_type : {"lora", "adalora"}, num_steps : NumSteps, batch_size : 1 .. MaxBatch]

\* Adapter tensors, one column of lora_B (dimension 0) and one row of lora_A
\* (dimension 1), Rows entries each, in units of 1e-3.
Ramp == [i \in Idx |-> i]

Zeros == [i \in Idx |-> 0]

Gapped == [i \in Idx |-> IF i % 2 = 0 THEN 0 - 5 ELSE 0]

\* What an optimizer step can leave in the adapter.
StepOutcomes == {[A |-> Ramp, B |-> Gapped], [A |-> Gapped, B |-> Ramp]}

Ones == [i \in Idx |-> 1]

Falling == [i \in Idx |-> Rows + 1 - i]

\* What a backward pass can leave in p.grad.
FreeGrads == {[A |-> Falling, B |-> Ones]}

ZeroGrads == {[A |-> Zeros, B |-> Zeros]}

\* loss.item(), in tenths
Losses == {0, 2}

\* ------------------------------------------------------------------- state
VARIABLES
  pc,               \* position in execute_roselora, or the helper being called
  error,            \* the exception that ended the run, "none" otherwise
  model,            \* the model object's flags
  lora,             \* the adapter's tensors (p.data), Unbound before wrapping
  grad,             \* p.grad of the adapter's tensors
  hparams,
  caller_requests,  \* the list the caller passed
  requests,         \* the local name after deepcopy
  texts, targets,
  opt,              \* the optimizer has been constructed
  loss_meter,
  imp_A, imp_B,     \* the dict entry of the lora_A / lora_B parameter
  it,               \* the outer loop's index, -1 before the loop
  ci,               \* chunks consumed by the inner loop in this iteration
  batch,            \* the (txt, tgt) chunk being trained on
  rate,             \* the local rate
  rate_it,          \* the iteration that assigned rate
  broke,            \* the loop ended with break
  calls,            \* unit harness: update(val, n) calls since the last reset
  arr, n, yielded   \* unit harness: an input of chunks and what it yielded

vars == <<pc, error, model, lora, grad, hparams, caller_requests, requests,
          texts, targets, opt, loss_meter, imp_A, imp_B, it, ci, batch, rate,
          rate_it, broke, calls, arr, n, yielded>>

harness == <<calls, arr, n, yielded>>

FreshModel(wrapped) ==
  [use_cache |-> TRUE, gradient_checkpointing |-> FALSE,
   input_require_grads |-> FALSE, peft_config |-> wrapped,
   model_parallel |-> FALSE]

ExistingAdapter == [A |-> Gapped, B |-> Ramp]

Init ==
  /\ pc = "start"
  /\ error = "none"
  /\ \E wrapped \in BOOLEAN :
       /\ model = FreshModel(wrapped)
       /\ lora = IF wrapped THEN Bound(ExistingAdapter) ELSE Unbound
  /\ grad = Unbound
  /\ hparams \in HyperParams
  /\ caller_requests \in RequestLists
  /\ requests = caller_requests
  /\ texts = <<>>
  /\ targets = <<>>
  /\ opt = FALSE
  /\ loss_meter = MeterReset
  /\ imp_A = Unbound
  /\ imp_B = Unbound
  /\ it = 0 - 1
  /\ ci = 0
  /\ batch = Unbound
  /\ rate = Unbound
  /\ rate_it = 0 - 1
  /\ broke = FALSE
  /\ calls = <<>>
  /\ arr = <<>>
  /\ n = 1
  /\ yielded = <<>>

\* ------------------------------------------------------------------- setup
\* model.config.use_cache = False ... model.enable_input_require_grads()
Configured(m) ==
  [m EXCEPT !.use_cache = FALSE, !.gradient_checkpointing = TRUE,
            !.input_require_grads = TRUE]

ConfigureModel ==
  /\ pc = "start"
  /\ model' = Configured(model)
  /\ pc' = "select"
  /\ UNCHANGED <<error, lora, grad, hparams, caller_requests, requests, texts,
                 targets, opt, loss_meter, imp_A, imp_B, it, ci, batch, rate,
                 rate_it, broke, harness>>

\* if hparams.lora_type == "lora": Config = LoraConfig  else: raise
SelectConfig ==
  /\ pc = "select"
  /\ IF hparams.lora_type = "lora"
     THEN pc' = "wrap" /\ error' = error
     ELSE pc' = "raised" /\ error' = "NotImplementedError"
  /\ UNCHANGED <<model, lora, grad, hparams, caller_requests, requests, texts,
                 targets, opt, loss_meter, imp_A, imp_B, it, ci, batch, rate,
                 rate_it, broke, harness>>

\* get_peft_model: lora_A is initialised at random, lora_B with zeros
FreshAdapter == [A |-> Ramp, B |-> Zeros]

WrapModel ==
  /\ pc = "wrap"
  /\ \E keep_original_weight \in BOOLEAN :
       IF ~keep_original_weight /\ model.peft_config
       THEN lora' = lora
       ELSE lora' = Bound(FreshAdapter)
  /\ model' = [model EXCEPT !.peft_config = TRUE, !.model_parallel = TRUE]
  /\ pc' = "preprocess"
  /\ UNCHANGED <<error, grad, hparams, caller_requests, requests, texts,
                 targets, opt, loss_meter, imp_A, imp_B, it, ci, batch, rate,
                 rate_it, broke, harness>>

Preprocess ==
  /\ pc = "preprocess"
  /\ LET r == Preprocessed(caller_requests)
     IN /\ caller_requests' = r.caller
        /\ requests' = r.local
        /\ texts' = [j \in 1 .. Len(r.local) |-> r.local[j].prompt]
        /\ targets' = [j \in 1 .. Len(r.local) |-> r.local[j].target_new]
  /\ pc' = "setup"
  /\ UNCHANGED <<error, model, lora, grad, hparams, opt, loss_meter, imp_A,
                 imp_B, it, ci, batch, rate, rate_it, broke, harness>>

\* progress_bar, opt = Adam(...), loss_meter = AverageMeter(), imp_A = imp_B = {}
SetupTraining ==
  /\ pc = "setup"
  /\ opt' = TRUE
  /\ loss_meter' = MeterReset
  /\ imp_A' = Unbound
  /\ imp_B' = Unbound
  /\ pc' = "loop"
  /\ UNCHANGED <<error, model, lora, grad, hparams, caller_requests, requests,
                 texts, targets, it, ci, batch, rate, rate_it, broke, harness>>

\* ----------------------------------------------------------- training loop
\* Runs of more than MaxUpdates request-iterations are explored with vanishing
\* gradients only, which keeps every importance score at 0.
GradOutcomes ==
  IF Len(texts) * hparams.num_steps <= MaxUpdates THEN FreeGrads ELSE ZeroGrads

\* for it in progress_bar: loss_meter.reset() / progress_bar.close(); return
OuterNext ==
  /\ pc = "loop"
  /\ IF it + 1 < hparams.num_steps
     THEN /\ it' = it + 1
          /\ loss_meter' = MeterReset
          /\ ci' = 0
          /\ pc' = "inner"
     ELSE /\ pc' = "returned"
          /\ UNCHANGED <<it, loss_meter, ci>>
  /\ UNCHANGED <<error, model, lora, grad, hparams, caller_requests, requests,
                 texts, targets, opt, imp_A, imp_B, batch, rate, rate_it,
                 broke, harness>>

\* for txt, tgt in zip(chunks(...), chunks(...)): # Prepare RoseLoRA Rate
InnerNext ==
  /\ pc = "inner"
  /\ LET bs == Batches(texts, targets, hparams.batch_size)
     IN IF ci < Len(bs)
        THEN /\ batch' = Bound(bs[ci + 1])
             /\ ci' = ci + 1
             /\ rate' = Bound(SparsityRate(it))
             /\ rate_it' = it
             /\ pc' = "backward"
        ELSE /\ pc' = "report"
             /\ UNCHANGED <<batch, ci, rate, rate_it>>
  /\ UNCHANGED <<error, model, lora, grad, hparams, caller_requests, requests,
                 texts, targets, opt, loss_meter, imp_A, imp_B, it, broke,
                 harness>>

\* tokenization, opt.zero_grad(), the forward pass and the masked loss,
\* loss_meter.update(loss.item(), n=bs), loss.backward()
Backward ==
  /\ pc = "backward"
  /\ \E loss \in Losses :
       loss_meter' = MeterUpdate(loss_meter, loss, Len(ValueOf(batch).txt))
  /\ \E g \in GradOutcomes : grad' = Bound(g)
  /\ pc' = "importance"
  /\ UNCHANGED <<error, model, lora, hparams, caller_requests, requests, texts,
                 targets, opt, imp_A, imp_B, it, ci, batch, rate, rate_it,
                 broke, harness>>

\* for n, p in peft_model.named_parameters(): imp_A[n] = ..., imp_B[n] = ...
UpdateImportance ==
  /\ pc = "importance"
  /\ imp_A' = ImpUpdate(imp_A, ImpScore(ValueOf(grad).A, ValueOf(lora).A))
  /\ imp_B' = ImpUpdate(imp_B, ImpScore(ValueOf(grad).B, ValueOf(lora).B))
  /\ pc' = "step"
  /\ UNCHANGED <<error, model, lora, grad, hparams, caller_requests, requests,
                 texts, targets, opt, loss_meter, it, ci, batch, rate, rate_it,
                 broke, harness>>

\* opt.step()
OptStep ==
  /\ pc = "step"
  /\ \E v \in StepOutcomes : lora' = Bound(v)
  /\ pc' = "prune"
  /\ UNCHANGED <<error, model, grad, hparams, caller_requests, requests, texts,
                 targets, opt, loss_meter, imp_A, imp_B, it, ci, batch, rate,
                 rate_it, broke, harness>>

\* if rate < 1.0
Pruning(r) == r < RateOne

\* if rate < 1.0: for n, p in ...: kthvalue, masked_fill_, clamp_
Prune ==
  /\ pc = "prune"
  /\ IF Pruning(ValueOf(rate))
     THEN LET k == KthIndex(Rows, ValueOf(rate))
          IN IF KthInRange(k)
             THEN /\ lora' = Bound([A |-> PruneTensor(ValueOf(lora).A, ValueOf(imp_A), k),
                                    B |-> PruneTensor(ValueOf(lora).B, ValueOf(imp_B), k)])
                  /\ pc' = "inner"
                  /\ error' = error
             ELSE /\ pc' = "raised"
                  /\ error' = "RuntimeError"
                  /\ lora' = lora
     ELSE /\ pc' = "inner"
          /\ UNCHANGED <<lora, error>>
  /\ UNCHANGED <<model, grad, hparams, caller_requests, requests, texts,
                 targets, opt, loss_meter, imp_A, imp_B, it, ci, batch, rate,
                 rate_it, broke, harness>>

\* progress_bar.set_description(f"rate: {rate:.3f} loss: {loss_meter.avg:.3f} ")
Report ==
  /\ pc = "report"
  /\ IF rate = Unbound
     THEN pc' = "raised" /\ error' = "UnboundLocalError"
     ELSE pc' = "check" /\ error' = error
  /\ UNCHANGED <<model, lora, grad, hparams, caller_requests, requests, texts,
                 targets, opt, loss_meter, imp_A, imp_B, it, ci, batch, rate,
                 rate_it, broke, harness>>

\* it > burnin_iter and loss_meter.avg < 0.1
ShouldStop(i, m) == i > burnin_iter /\ BelowStopLoss(m)

EarlyStop ==
  /\ pc = "check"
  /\ IF ShouldStop(it, loss_meter)
     THEN pc' = "returned" /\ broke' = TRUE
     ELSE pc' = "loop" /\ broke' = broke
  /\ UNCHANGED <<error, model, lora, grad, hparams, caller_requests, requests,
                 texts, targets, opt, loss_meter, imp_A, imp_B, it, ci, batch,
                 rate, rate_it, harness>>

Next ==
  \/ ConfigureModel
  \/ SelectConfig
  \/ WrapModel
  \/ Preprocess
  \/ SetupTraining
  \/ OuterNext
  \/ InnerNext
  \/ Backward
  \/ UpdateImportance
  \/ OptStep
  \/ Prune
  \/ Report
  \/ EarlyStop

Spec == Init /\ [][Next]_vars

\* ------------------------------------------------------------ unit harness
\* The helpers called on their own, one helper per behaviour: pc names it.
MeterVals == {0, 3, 5}

MeterWeights == {1, 2}

InitUnits ==
  /\ pc \in {"meter", "chunks", "rate"}
  /\ error = "none"
  /\ model = FreshModel(FALSE)
  /\ lora = Unbound
  /\ grad = Unbound
  /\ hparams = [lora_type |-> "lora", num_steps |-> 0, batch_size |-> 1]
  /\ caller_requests = <<>>
  /\ requests = <<>>
  /\ texts = <<>>
  /\ targets = <<>>
  /\ opt = FALSE
  /\ loss_meter = MeterReset
  /\ imp_A = Unbound
  /\ imp_B = Unbound
  /\ it = 0
  /\ ci = 0
  /\ batch = Unbound
  /\ rate = Unbound
  /\ rate_it = 0 - 1
  /\ broke = FALSE
  /\ calls = <<>>
  /\ arr = <<>>
  /\ n = 1
  /\ yielded = <<>>

\* loss_meter.update(val, n)
CallUpdate ==
  /\ pc = "meter"
  /\ Len(calls) < MaxCalls
  /\ \E val \in MeterVals, w \in MeterWeights :
       /\ loss_meter' = MeterUpdate(loss_meter, val, w)
       /\ calls' = Append(calls, [val |-> val, n |-> w])
  /\ UNCHANGED <<pc, error, model, lora, grad, hparams, caller_requests,
                 requests, texts, targets, opt, imp_A, imp_B, it, ci, batch,
                 rate, rate_it, broke, arr, n, yielded>>

\* loss_meter.reset()
CallReset ==
  /\ pc = "meter"
  /\ loss_meter' = MeterReset
  /\ calls' = <<>>
  /\ UNCHANGED <<pc, error, model, lora, grad, hparams, caller_requests,
                 requests, texts, targets, opt, imp_A, imp_B, it, ci, batch,
                 rate, rate_it, broke, arr, n, yielded>>

\* list(chunks(arr, n)) for arr = [1 .. len]
CallChunks ==
  /\ pc = "chunks"
  /\ \E len \in 0 .. MaxArr, size \in 1 .. MaxN :
       /\ arr' = [j \in 1 .. len |-> j]
       /\ n' = size
       /\ yielded' = chunks([j \in 1 .. len |-> j], size)
  /\ UNCHANGED <<pc, error, model, lora, grad, hparams, caller_requests,
                 requests, texts, targets, opt, loss_meter, imp_A, imp_B, it,
                 ci, batch, rate, rate_it, broke, calls>>

\* the rate block of the loop body at iteration i
CallRate ==
  /\ pc = "rate"
  /\ \E i \in 0 .. MaxSteps :
       /\ it' = i
       /\ rate' = Bound(SparsityRate(i))
       /\ rate_it' = i
  /\ UNCHANGED <<pc, error, model, lora, grad, hparams, caller_requests,
                 requests, texts, targets, opt, loss_meter, imp_A, imp_B, ci,
                 batch, broke, harness>>

NextUnits ==
  \/ CallUpdate
  \/ CallReset
  \/ CallChunks
  \/ CallRate

SpecUnits == InitUnits /\ [][NextUnits]_vars

\* ================================================================== claims

\* ----------------------------------------------------------------------- C1
\* C1: the sparsity rate at outer iteration `it` is 1.0 exactly for it < 3,
\* 0.05 exactly for it >= 20, lies in [0.05, 1.0] for 3 <= it < 20, and is
\* strictly decreasing in it over 3 <= it < 20.
C1_RateSchedule ==
  /\ [](pc = "rate" /\ rate # Unbound =>
          LET r == ValueOf(rate)
          IN /\ it < full_iter => r = RateDen
             /\ it >= burnin_iter => r * SparsityDen = SparsityNum * RateDen
             /\ (full_iter <= it /\ it < burnin_iter) =>
                  /\ SparsityNum * RateDen <= r * SparsityDen
                  /\ r <= RateDen)
  /\ [][(/\ pc = "rate" /\ rate # Unbound /\ rate' # Unbound
         /\ full_iter <= it /\ it < it' /\ it' < burnin_iter)
        => ValueOf(rate') < ValueOf(rate)]_vars

C1_Witness ==
  /\ pc = "rate"
  /\ rate # Unbound
  /\ it = full_iter + 1
  /\ ValueOf(rate) < RateDen
  /\ SparsityNum * RateDen < ValueOf(rate) * SparsityDen

\* ----------------------------------------------------------------------- C2
ZeroCount(v) == Cardinality({i \in Idx : v[i] = 0})

Distinct(v) == \A i, j \in Idx : i # j => v[i] # v[j]

\* the run returned and its last micro-batch pruned (rate < 1.0)
FinalPruned == pc = "returned" /\ rate # Unbound /\ ValueOf(rate) < RateDen

\* C2 as stated: after a full run whose final step has rate < 1.0, lora_B has
\* at least floor(shape[0] * (1 - rate)) exactly-zero entries in each column
\* and no entry above 3e-3 in absolute value.
C2_ZerosAsClaimed ==
  FinalPruned =>
    /\ ZeroCount(ValueOf(lora).B) >= (Rows * (RateDen - ValueOf(rate))) \div RateDen
    /\ \A i \in Idx : Abs(ValueOf(lora).B[i]) <= ClampMax

\* C2 amended: after such a run every lora_B entry whose importance is
\* strictly below the column's k-th smallest importance, k = floor(shape[0] *
\* (1 - rate)), is exactly zero (k - 1 entries at least when the column's
\* importances are distinct), and no entry exceeds 3e-3 in absolute value.
C2_PrunedBelowKth ==
  FinalPruned =>
    LET B == ValueOf(lora).B
        imp == ValueOf(imp_B).num
        k == (Rows * (RateDen - ValueOf(rate))) \div RateDen
    IN /\ \A i \in Idx :
            Cardinality({j \in Idx : imp[j] <= imp[i]}) < k => B[i] = 0
       /\ Distinct(imp) => ZeroCount(B) >= k - 1
       /\ \A i \in Idx : Abs(B[i]) <= ClampMax

C2_Witness ==
  /\ FinalPruned
  /\ Distinct(ValueOf(imp_B).num)
  /\ (Rows * (RateDen - ValueOf(rate))) \div RateDen >= 2
  /\ ZeroCount(ValueOf(lora).B) = (Rows * (RateDen - ValueOf(rate))) \div RateDen - 1
  /\ \E i \in Idx : ValueOf(lora).B[i] = ClampMax

\* ----------------------------------------------------------------------- C3
PreprocessDone == pc = "setup" \/ opt

IsBlank(t) == \A j \in 1 .. Len(t) : t[j] = " "

\* C3 as stated: a target equal to " " is left unchanged, a non-empty target
\* that is not whitespace-only gets one leading space, and an empty or
\* whitespace-only target gets none.
C3_RuleAsClaimed ==
  PreprocessDone =>
    /\ Len(requests) = Len(caller_requests)
    /\ \A j \in 1 .. Len(requests) :
         LET t == caller_requests[j].target_new
             s == requests[j].target_new
         IN /\ t = <<" ">> => s = t
            /\ ~IsBlank(t) => s = <<" ">> \o t
            /\ IsBlank(t) => s = t

\* C3 amended: for every request, a target equal to " " is left unchanged and
\* every other target, the empty one and longer whitespace-only ones
\* included, gets exactly one leading space.
C3_LeadingSpaceRule ==
  PreprocessDone =>
    /\ Len(requests) = Len(caller_requests)
    /\ \A j \in 1 .. Len(requests) :
         LET t == caller_requests[j].target_new
             s == requests[j].target_new
         IN /\ t = <<" ">> => s = t
            /\ t # <<" ">> => s = <<" ">> \o t

C3_Witness ==
  /\ PreprocessDone
  /\ Len(requests) = 2
  /\ caller_requests[1].target_new = <<>>
  /\ requests[1].target_new = <<" ">>
  /\ caller_requests[2].target_new = <<" ", " ">>
  /\ requests[2].target_new = <<" ", " ", " ">>

\* ----------------------------------------------------------------------- C4
\* C4: when lora_type is not "lora" the run fails with NotImplementedError
\* before any optimizer construction or training, with the model's flags and
\* adapter as they were on entry.
C4_NoMutationOnConfigError ==
  (pc = "raised" /\ error = "NotImplementedError") =>
    /\ model = FreshModel(model.peft_config)
    /\ lora = (IF model.peft_config THEN Bound(ExistingAdapter) ELSE Unbound)
    /\ ~opt
    /\ it = 0 - 1

\* ----------------------------------------------------------------------- C5
\* the run got past setup and ended, by return or by an exception
LoopEnded == pc = "returned" \/ (pc = "raised" /\ error # "NotImplementedError")

\* C5: the loop ends after at most num_steps iterations; it ends early only at
\* the end of an iteration it > 20 whose own average loss is below 0.1, and
\* otherwise every one of the num_steps iterations is executed.
C5_StopsEarlyOrRunsAll ==
  LoopEnded =>
    /\ it < hparams.num_steps \/ hparams.num_steps = 0
    /\ IF broke
       THEN /\ it > burnin_iter
            /\ loss_meter.count > 0 => loss_meter.sum < StopLoss * loss_meter.count
       ELSE it = hparams.num_steps - 1

\* ----------------------------------------------------------------------- C6
RECURSIVE Concat(_)
Concat(ss) == IF ss = <<>> THEN <<>> ELSE Head(ss) \o Concat(Tail(ss))

\* C6: for a chunk size n >= 1, the chunks yielded by chunks(arr, n)
\* concatenate to arr, every chunk but the last has exactly n elements, the
\* last has between 1 and n, and an empty arr yields nothing.
C6_ChunksPartition ==
  pc = "chunks" =>
    /\ Concat(yielded) = arr
    /\ \A j \in 1 .. Len(yielded) :
         /\ j < Len(yielded) => Len(yielded[j]) = n
         /\ 1 <= Len(yielded[j])
         /\ Len(yielded[j]) <= n
    /\ Len(arr) = 0 => Len(yielded) = 0

C6_Witness ==
  /\ pc = "chunks"
  /\ arr = <<1, 2, 3, 4, 5, 6, 7>>
  /\ n = 3
  /\ yielded = <<<<1, 2, 3>>, <<4, 5, 6>>, <<7>>>>

\* ----------------------------------------------------------------------- C7
RECURSIVE SumN(_)
SumN(cs) == IF cs = <<>> THEN 0 ELSE Head(cs).n + SumN(Tail(cs))

RECURSIVE SumValN(_)
SumValN(cs) == IF cs = <<>> THEN 0 ELSE Head(cs).val * Head(cs).n + SumValN(Tail(cs))

\* C7: after update(val, n) calls with n >= 1 since the last reset(), count is
\* the sum of the n's, sum the sum of val * n, avg = sum / count and val the
\* most recent value; after reset() val = avg = sum = count = 0.
C7_WeightedMean ==
  pc = "meter" =>
    /\ loss_meter.count = SumN(calls)
    /\ loss_meter.sum = SumValN(calls)
    /\ calls # <<>> =>
         /\ loss_meter.avg.den > 0
         /\ loss_meter.avg.num * SumN(calls) = SumValN(calls) * loss_meter.avg.den
         /\ loss_meter.val = calls[Len(calls)].val
    /\ calls = <<>> =>
         /\ loss_meter.val = 0
         /\ loss_meter.avg.num = 0
         /\ loss_meter.sum = 0
         /\ loss_meter.count = 0

C7_Witness ==
  /\ pc = "meter"
  /\ calls = <<[val |-> 3, n |-> 2], [val |-> 5, n |-> 1]>>
  /\ loss_meter.avg.num * 3 = 11 * loss_meter.avg.den
  /\ loss_meter.count = 3

\* ----------------------------------------------------------------------- C8
\* C8: no step of an edit run changes the caller's request list, whether the
\* run returns or fails.
C8_CallerRequestsUntouched == [][caller_requests' = caller_requests]_vars

C8_Witness ==
  /\ pc \in {"returned", "raised"}
  /\ opt
  /\ \E j \in 1 .. Len(requests) :
       requests[j].target_new # caller_requests[j].target_new

\* ----------------------------------------------------------------------- C9
\* new = 0.8 * prev + 0.2 * score, entry by entry
EmaOf(prev, score, new) ==
  /\ new.exp <= prev.exp + 1
  /\ \A i \in Idx :
       new.num[i] * Pow(DecayDen, prev.exp + 1 - new.exp)
         = DecayNum * prev.num[i] + ScoreNum * score[i] * Pow(DecayDen, prev.exp)

Tracked(old, new, g, p) ==
  LET score == [i \in Idx |-> Abs(g[i] * p[i])]
  IN /\ new # Unbound
     /\ IF old = Unbound
        THEN ValueOf(new).exp = 0 /\ ValueOf(new).num = score
        ELSE EmaOf(ValueOf(old), score, ValueOf(new))

\* C9: a micro-batch runs backward pass, importance update, optimizer step,
\* pruning in that order; the importance update sets each score to
\* |gradient * value| of the value before the optimizer step on the first
\* observation and to 0.8 * previous + 0.2 * score afterwards; nothing else
\* in the loop touches a score, and pruning finds both scores initialised.
C9_ImportanceTracking ==
  /\ [](pc = "prune" => imp_A # Unbound /\ imp_B # Unbound)
  /\ [][/\ pc = "backward" => pc' = "importance" /\ lora' = lora
        /\ pc = "importance" =>
             /\ pc' = "step"
             /\ lora' = lora
             /\ grad' = grad
             /\ Tracked(imp_A, imp_A', ValueOf(grad).A, ValueOf(lora).A)
             /\ Tracked(imp_B, imp_B', ValueOf(grad).B, ValueOf(lora).B)
        /\ pc = "step" => pc' = "prune"
        /\ pc = "prune" => pc' \in {"inner", "raised"}
        /\ pc \in {"loop", "inner", "backward", "step", "prune", "report", "check"}
             => imp_A' = imp_A /\ imp_B' = imp_B]_vars

C9_Witness ==
  /\ pc = "prune"
  /\ it > full_iter
  /\ ValueOf(rate) < RateDen
  /\ ValueOf(imp_B).exp > 0
  /\ ValueOf(imp_A).exp > 0

\* ---------------------------------------------------------------------- C10
\* C10: whenever an outer iteration reads the rate, for pruning or for the
\* progress report, the rate was computed in that same iteration.
C10_RateComputedBeforeUse ==
  pc \in {"prune", "report"} => rate # Unbound /\ rate_it = it

====
